---- MODULE Spec2Model ----
(***************************************************************************)
(* Model of parse_medicine_details (src/app.py): the line-oriented         *)
(* prescription parser.  Text is modelled as TLA+ strings, characters as   *)
(* strings of length one, and every regular expression of the source as    *)
(* an operator that computes the match Python's re module finds.           *)
(***************************************************************************)
EXTENDS Integers, Sequences, FiniteSets, TLC

(***************************************************************************)
(* Characters and the character classes of Python's re and str.            *)
(***************************************************************************)
StrChars(s) == { SubSeq(s, i, i) : i \in 1..Len(s) }

LowerStr == "abcdefghijklmnopqrstuvwxyz"

UpperStr == "ABCDEFGHIJKLMNOPQRSTUVWXYZ"

DigitChars == StrChars("0123456789")

LowerChars == StrChars(LowerStr)

UpperChars == StrChars(UpperStr)

\* \w
WordChars == DigitChars \cup LowerChars \cup UpperChars \cup {"_"}

\* \s, and what str.strip() removes
SpaceChars == {" ", "\t", "\r", "\n"}

\* The character at position i (1-based), "" outside the string.
Ch(s, i) == IF i >= 1 /\ i <= Len(s) THEN SubSeq(s, i, i) ELSE ""

SetMin(S) == CHOOSE x \in S : \A y \in S : x <= y

SetMax(S) == CHOOSE x \in S : \A y \in S : x >= y

\* \b at position p: between the characters p-1 and p.
Boundary(s, p) == (Ch(s, p - 1) \in WordChars) # (Ch(s, p) \in WordChars)

\* The literal lit occurs in s starting at position p.
StartsAt(s, p, lit) ==
    /\ p >= 1
    /\ p + Len(lit) - 1 <= Len(s)
    /\ SubSeq(s, p, p + Len(lit) - 1) = lit

\* Python's  lit in s
Contains(s, lit) == \E p \in 1..(Len(s) + 1) : StartsAt(s, p, lit)

\* Python's  s.endswith(lit)
EndsWith(s, lit) == Len(lit) <= Len(s) /\ StartsAt(s, Len(s) - Len(lit) + 1, lit)

\* The last position of the longest run of characters of class that starts
\* at p (p - 1 when the run is empty): a greedy  [class]*.
RunEnd(s, p, class) ==
    SetMin({ q \in p..(Len(s) + 1) : Ch(s, q) \notin class }) - 1

\* The position after a greedy \s* that starts at p.
SkipSpaces(s, p) == RunEnd(s, p, SpaceChars) + 1

LowerChar(c) ==
    IF c \in UpperChars
    THEN LET i == CHOOSE j \in 1..Len(UpperStr) : SubSeq(UpperStr, j, j) = c
         IN  SubSeq(LowerStr, i, i)
    ELSE c

RECURSIVE lower(_)
\* str.lower()
lower(s) ==
    IF s = "" THEN "" ELSE LowerChar(Ch(s, 1)) \o lower(SubSeq(s, 2, Len(s)))

\* str.strip()
strip(s) ==
    LET keep == { i \in 1..Len(s) : Ch(s, i) \notin SpaceChars }
    IN  IF keep = {} THEN "" ELSE SubSeq(s, SetMin(keep), SetMax(keep))

RECURSIVE split(_)
\* str.split('\n')
split(s) ==
    LET brk == { i \in 1..Len(s) : Ch(s, i) = "\n" }
    IN  IF brk = {} THEN << s >>
        ELSE << SubSeq(s, 1, SetMin(brk) - 1) >>
                 \o split(SubSeq(s, SetMin(brk) + 1, Len(s)))

RECURSIVE RemoveChars(_, _)
\* re.sub('[class]', '', s)
RemoveChars(s, class) ==
    IF s = "" THEN ""
    ELSE (IF Ch(s, 1) \in class THEN "" ELSE Ch(s, 1))
             \o RemoveChars(SubSeq(s, 2, Len(s)), class)

\* Python's None, and a value that is not None, kept apart from every string.
None == << >>

Some(v) == << v >>

(***************************************************************************)
(* is_likely_phone_number                                                  *)
(***************************************************************************)
\* The positions reachable from the positions S by an optional character of
\* class:  [class]?
OptChar(s, S, class) == S \cup { p + 1 : p \in { q \in S : Ch(s, q) \in class } }

\* The positions reachable from S by between lo and hi digits:  \d{lo,hi}
DigitsFrom(s, S, lo, hi) ==
    { p + n : p \in S, n \in lo..hi } \cap
    { e \in 1..(Len(s) + 1) :
        \E p \in S : e - p \in lo..hi /\ \A k \in p..(e - 1) : Ch(s, k) \in DigitChars }

PhoneSeparators == {"-", ".", " ", "\t", "\r", "\n"}

\* The end positions of  (\+?\d{1,3}[-.\s]?)?\(?\d{3}\)?[-.\s]?\d{3}[-.\s]?\d{4}\b
\* over all the ways it matches from position p.
PhoneEnds(s, p) ==
    LET country == OptChar(s, DigitsFrom(s, OptChar(s, {p}, {"+"}), 1, 3),
                           PhoneSeparators)
        a0 == {p} \cup country
        a1 == DigitsFrom(s, OptChar(s, a0, {"("}), 3, 3)
        a2 == OptChar(s, OptChar(s, a1, {")"}), PhoneSeparators)
        a3 == OptChar(s, DigitsFrom(s, a2, 3, 3), PhoneSeparators)
        a4 == DigitsFrom(s, a3, 4, 4)
    IN  { e \in a4 : Boundary(s, e) }

\* bool(re.search(phone_pattern, text))
is_likely_phone_number(s) == { p \in 1..(Len(s) + 1) : PhoneEnds(s, p) # {} } # {}

(***************************************************************************)
(* The tables and the number pattern of parse_medicine_details             *)
(***************************************************************************)
dosage_keywords ==
    << "mg", "ml", "g", "mcg", "tablet", "capsule", "spoon", "drops", "puff" >>

frequency_keywords ==
    << "daily", "once a day", "twice a day", "thrice a day", "times a day",
       "bd", "tds", "qid", "od", "hs", "sos", "prn", "before food", "after food",
       "morning", "noon", "evening", "night", "alternate day", "weekly" >>

\* number_pattern = \b\d+(\.\d+)?\b  tried at position p: the ways it matches,
\* in the order the backtracking matcher tries them (with the fraction first).
\* Each is the end position and the text of the inner group (\.\d+), None when
\* the group did not take part.  \d+ always takes the whole run of digits: a
\* shorter one is followed by a digit, where neither \. nor \b matches.
number_pattern(s, p) ==
    LET e1 == RunEnd(s, p, DigitChars)
        e2 == RunEnd(s, e1 + 2, DigitChars)
        withFraction ==
            IF Ch(s, e1 + 1) = "." /\ e2 >= e1 + 2 /\ Boundary(s, e2 + 1)
            THEN << [end |-> e2, fraction |-> Some(SubSeq(s, e1 + 1, e2))] >>
            ELSE << >>
        integerOnly ==
            IF Boundary(s, e1 + 1)
            THEN << [end |-> e1, fraction |-> None] >>
            ELSE << >>
    IN  IF e1 < p \/ ~Boundary(s, p) THEN << >> ELSE withFraction \o integerOnly

\* The first element of seq among those at the positions ok, as a sequence
\* of length at most one: the first way of matching that succeeds.
FirstAmong(seq, ok) == IF ok = {} THEN << >> ELSE << seq[SetMin(ok)] >>

\* re.search: at[p] is the match found at position p (a sequence of length at
\* most one); the match at the leftmost position that has one, None when
\* there is none.
Search(at) ==
    LET hits == { p \in DOMAIN at : at[p] # << >> }
    IN  IF hits = {} THEN None ELSE at[SetMin(hits)]

(***************************************************************************)
(* Name lines (lines 85-92)                                                *)
(***************************************************************************)
NameChars ==
    LowerChars \cup UpperChars \cup DigitChars \cup SpaceChars \cup {"-", ".", "!"}

\* re.match(r'^[A-Z][a-zA-Z0-9\s\-\.!]+$', line)
name_pattern(line) ==
    /\ Len(line) >= 2
    /\ Ch(line, 1) \in UpperChars
    /\ \A i \in 2..Len(line) : Ch(line, i) \in NameChars

\* any(freq in line_lower for freq in frequency_keywords)
HasFrequencyKeyword(line_lower) ==
    \E k \in 1..Len(frequency_keywords) : Contains(line_lower, frequency_keywords[k])

IsNameLine(line) == name_pattern(line) /\ ~HasFrequencyKeyword(lower(line))

PunctuationChars == {"!", "@", "#", "$", "%", "^", "&", "*", "(", ")"}

\* The end of the match of  \s*\d+(\.\d+)?\s*{unit}\b  (IGNORECASE) at position
\* p, as a set with at most one element.  The unit starts with a letter, so
\* each \s* takes every space and \d+ every digit, and the fraction is taken
\* whenever it is there.
UnitFragmentEnd(s, p, unit) ==
    LET d  == SkipSpaces(s, p)
        e1 == RunEnd(s, d, DigitChars)
        e2 == RunEnd(s, e1 + 2, DigitChars)
        n  == IF Ch(s, e1 + 1) = "." /\ e2 >= e1 + 2 THEN e2 ELSE e1
        u  == SkipSpaces(s, n + 1)
        e  == u + Len(unit)
    IN  IF e1 >= d /\ StartsAt(lower(s), u, unit) /\ Boundary(s, e)
        THEN {e} ELSE {}

RECURSIVE StripUnitFragments(_, _, _)
\* re.sub(fr'\s*\d+(\.\d+)?\s*{unit}\b', '', s, flags=re.IGNORECASE), scanning
\* from position p: every match is removed, not only one at the end.
StripUnitFragments(s, p, unit) ==
    IF p > Len(s) THEN ""
    ELSE LET e == UnitFragmentEnd(s, p, unit)
         IN  IF e # {} THEN StripUnitFragments(s, SetMin(e), unit)
             ELSE Ch(s, p) \o StripUnitFragments(s, p + 1, unit)

\* Lines 87-91: the name a name line leaves pending.
DeriveName(line) ==
    LET cleaned == strip(RemoveChars(line, PunctuationChars))
        units   == { k \in 1..Len(dosage_keywords) :
                       EndsWith(lower(cleaned), " " \o dosage_keywords[k]) }
    IN  IF units = {} THEN cleaned
        ELSE strip(StripUnitFragments(cleaned, 1, dosage_keywords[SetMin(units)]))


(***************************************************************************)
(* Dosage (lines 94-113)                                                   *)
(***************************************************************************)
\* The units, in table order, that match at q; with boundary, only those
\* followed by \b.
UnitsAt(s, q, boundary) ==
    { k \in 1..Len(dosage_keywords) :
        /\ StartsAt(s, q, dosage_keywords[k])
        /\ boundary => Boundary(s, q + Len(dosage_keywords[k])) }

\* First branch of the dosage pattern at p:  ({number_pattern})\s*(units)\b
\* number_pattern has a group of its own, so the groups are: 1 the number,
\* 2 its fraction (\.\d+), 3 the unit.
DosageNumberUnitAt(s, p) ==
    LET ways == number_pattern(s, p)
        hit == FirstAmong(ways, { i \in 1..Len(ways) :
                   UnitsAt(s, SkipSpaces(s, ways[i].end + 1), TRUE) # {} })
    IN  IF hit = << >> THEN << >>
        ELSE << [g1 |-> Some(SubSeq(s, p, hit[1].end)),
                 g2 |-> hit[1].fraction,
                 g3 |-> Some(dosage_keywords[
                            SetMin(UnitsAt(s, SkipSpaces(s, hit[1].end + 1), TRUE))]),
                 g4 |-> None, g5 |-> None] >>

\* Second branch at p:  \b(units)\s*({number_pattern}) ; its unit is group 4
\* and its number group 5.
DosageUnitNumberAt(s, p) ==
    LET ok == { k \in UnitsAt(s, p, FALSE) :
                  number_pattern(s, SkipSpaces(s, p + Len(dosage_keywords[k]))) # << >> }
        q  == SkipSpaces(s, p + Len(dosage_keywords[SetMin(ok)]))
    IN  IF ~Boundary(s, p) \/ ok = {} THEN << >>
        ELSE << [g1 |-> None, g2 |-> None, g3 |-> None,
                 g4 |-> Some(dosage_keywords[SetMin(ok)]),
                 g5 |-> Some(SubSeq(s, q, number_pattern(s, q)[1].end))] >>

\* Lines 97-100: re.search of the two branches, the first branch tried first
\* at each position.
dosage_match(line_lower) ==
    Search([p \in 1..(Len(line_lower) + 1) |->
               IF DosageNumberUnitAt(line_lower, p) # << >>
               THEN DosageNumberUnitAt(line_lower, p)
               ELSE DosageUnitNumberAt(line_lower, p)])

\* Line 107:  ({number_pattern})\s*(tablet|cap)? ; group 1 is the number.
num_only_match(line_lower) ==
    Search([p \in 1..(Len(line_lower) + 1) |->
               IF number_pattern(line_lower, p) = << >> THEN << >>
               ELSE << [g1 |-> Some(SubSeq(line_lower, p,
                                           number_pattern(line_lower, p)[1].end))] >>])

\* Python's truth value of a pending name, or of a group: neither None nor "".
Truthy(v) == v # None /\ v[1] # ""

\* Lines 94-113: the dosage of a detail line.
ExtractDosage(line_lower, current) ==
    LET dm == dosage_match(line_lower)
        nm == num_only_match(line_lower)
    IN  IF dm # None
        THEN IF Truthy(dm[1].g1) /\ Truthy(dm[1].g2)
             THEN dm[1].g1[1] \o " " \o dm[1].g2[1]
             ELSE IF Truthy(dm[1].g3) /\ Truthy(dm[1].g4)
             THEN dm[1].g4[1] \o " " \o dm[1].g3[1]
             ELSE "Not specified"
        ELSE IF nm # None /\ (Truthy(current) \/ Contains(line_lower, "tablet")
                                \/ Contains(line_lower, "cap"))
             THEN nm[1].g1[1] \o
                  (IF Contains(line_lower, "tablet") THEN " tablet(s)"
                   ELSE IF Contains(line_lower, "cap") THEN " capsule(s)"
                   ELSE "")
             ELSE "Not specified"

(***************************************************************************)
(* Frequency (lines 115-125)                                               *)
(***************************************************************************)
\* The end of a maximal run of digits at p that has at least one digit, as a
\* set with at most one element.
DigitsEnd(s, p) ==
    IF RunEnd(s, p, DigitChars) >= p THEN { RunEnd(s, p, DigitChars) } ELSE {}

\* Line 115:  \b(\d+)\s*-\s*(\d+)\s*-\s*(\d+)\b  at p.
TripletAt(s, p) ==
    LET a == DigitsEnd(s, p)
        h1 == SkipSpaces(s, SetMin(a) + 1)
        b0 == SkipSpaces(s, h1 + 1)
        b == DigitsEnd(s, b0)
        h2 == SkipSpaces(s, SetMin(b) + 1)
        c0 == SkipSpaces(s, h2 + 1)
        c == DigitsEnd(s, c0)
    IN  IF /\ Boundary(s, p) /\ a # {}
           /\ Ch(s, h1) = "-" /\ b # {}
           /\ Ch(s, h2) = "-" /\ c # {}
           /\ Boundary(s, SetMin(c) + 1)
        THEN << [g1 |-> SubSeq(s, p, SetMin(a)),
                 g2 |-> SubSeq(s, b0, SetMin(b)),
                 g3 |-> SubSeq(s, c0, SetMin(c))] >>
        ELSE << >>

xyz_match(line_lower) ==
    Search([p \in 1..(Len(line_lower) + 1) |-> TripletAt(line_lower, p)])

\* The end of  times\s*(a)?\s*day  at q, as a set with at most one element.
TimesADayEnd(s, q) ==
    LET r == SkipSpaces(s, q + Len("times"))
        withA == SkipSpaces(s, r + 1)
    IN  IF ~StartsAt(s, q, "times") THEN {}
        ELSE IF Ch(s, r) = "a" /\ StartsAt(s, withA, "day") THEN { withA + Len("day") }
        ELSE IF StartsAt(s, r, "day") THEN { r + Len("day") }
        ELSE {}

\* The end of  ({kw}|times\s*(a)?\s*day)  at q: the keyword is tried first.
FrequencyTailEnd(s, q, kw) ==
    IF StartsAt(s, q, kw) THEN { q + Len(kw) } ELSE TimesADayEnd(s, q)

\* Line 120:  ({number_pattern})\s*({kw}|times\s*(a)?\s*day)  searched in the
\* line.  Group 1 is the number, group 2 the number's fraction (\.\d+), group 3
\* the keyword text.
FreqNumAt(s, p, kw) ==
    LET ways == number_pattern(s, p)
        hit == FirstAmong(ways, { i \in 1..Len(ways) :
                   FrequencyTailEnd(s, SkipSpaces(s, ways[i].end + 1), kw) # {} })
        q == SkipSpaces(s, hit[1].end + 1)
    IN  IF hit = << >> THEN << >>
        ELSE << [g1 |-> Some(SubSeq(s, p, hit[1].end)),
                 g2 |-> hit[1].fraction,
                 g3 |-> Some(SubSeq(s, q, SetMin(FrequencyTailEnd(s, q, kw)) - 1))] >>

freq_num_match(line_lower, kw) ==
    Search([p \in 1..(Len(line_lower) + 1) |-> FreqNumAt(line_lower, p, kw)])

\* What the scan of one detail line ends with: a frequency, or the TypeError of
\* line 121 ("times" in None).
Raised == [raised |-> TRUE, frequency |-> ""]

Found(f) == [raised |-> FALSE, frequency |-> f]

RECURSIVE KeywordScan(_, _, _)
\* Lines 119-125, from the k-th keyword on, frequency being the value so far.
KeywordScan(line_lower, k, frequency) ==
    IF k > Len(frequency_keywords) THEN Found(frequency)
    ELSE LET kw == frequency_keywords[k]
             m  == freq_num_match(line_lower, kw)
         IN  IF m # None /\ m[1].g2 = None THEN Raised
             ELSE IF m # None /\ Contains(m[1].g2[1], "times")
             THEN KeywordScan(line_lower, k + 1, m[1].g1[1] \o " " \o m[1].g2[1])
             ELSE IF Contains(line_lower, kw) THEN Found(kw)
             ELSE KeywordScan(line_lower, k + 1, frequency)

\* ExtractFrequency with the triplet read as a-c-b: Afternoon and Night swapped.
ExtractFrequencySwapped(line_lower) ==
    LET x == xyz_match(line_lower)
    IN  IF x # None
        THEN Found("Morning: " \o x[1].g1 \o ", Afternoon: " \o x[1].g3
                       \o ", Night: " \o x[1].g2)
        ELSE KeywordScan(line_lower, 1, "Not specified")

\* Lines 115-125: the frequency of a detail line.
ExtractFrequency(line_lower) ==
    LET x == xyz_match(line_lower)
    IN  IF x # None
        THEN Found("Morning: " \o x[1].g1 \o ", Afternoon: " \o x[1].g2
                       \o ", Night: " \o x[1].g3)
        ELSE KeywordScan(line_lower, 1, "Not specified")


(***************************************************************************)
(* parse_medicine_details as a state machine: one step per line of the     *)
(* loop of lines 76-133, then the return of lines 135-137.                 *)
(***************************************************************************)
VARIABLES
    text,                   \* the argument
    lines,                  \* text.split('\n')
    idx,                    \* the position of the loop in lines
    current_medicine_name,  \* None, or Some(name) while a name is pending
    medicines,              \* the records appended so far
    pc,                     \* "loop", "done" (returned) or "raised" (TypeError)
    result,                 \* the value returned
    finalized_by            \* history: for each record, the line that emitted it

vars == << text, lines, idx, current_medicine_name, medicines, pc, result,
           finalized_by >>

\* The inputs: texts of at most MaxLines lines of AssemblyLines, which
\* exercise the record assembler, and texts of at most MaxFieldLines lines of
\* FieldLines, which exercise the extraction of dosage and frequency.
MaxLines == 4

MaxFieldLines == 2

AssemblyLines ==
    { "", "Paracetamol 500 mg", " Amoxicillin", "1-0-1", "+1-800-555-1234",
      "1 daily" }

FieldLines ==
    { " ", "CallDoctor", "Morning", "A! 2.5 ML x 5 mg", "(555) 123-4567",
      "take 500 mg", "2.5 ml", "mg 500", "2 tablets twice a day", "2 caps",
      "2.5 daily", "3 times a day", "2.5 times a day", "at night 1.5 od",
      "after food", "7" }

RECURSIVE Join(_)
Join(ls) ==
    IF ls = << >> THEN ""
    ELSE IF Len(ls) = 1 THEN ls[1]
    ELSE ls[1] \o "\n" \o Join(Tail(ls))

TextsOver(pool, n) == { Join(ls) : ls \in UNION { [1..k -> pool] : k \in 0..n } }

Texts == TextsOver(AssemblyLines, MaxLines) \cup TextsOver(FieldLines, MaxFieldLines)

Sentinel == [name |-> "Could not parse medicine details", dosage |-> "", frequency |-> ""]

\* Lines 64-66.
Init ==
    /\ text \in Texts
    /\ lines = split(text)
    /\ idx = 1
    /\ current_medicine_name = None
    /\ medicines = << >>
    /\ pc = "loop"
    /\ result = << >>
    /\ finalized_by = << >>

\* Lines 77-78: the line the loop is at, stripped, and its lowercase form.
line == strip(lines[idx])

line_lower == lower(line)

InLoop == pc = "loop" /\ idx <= Len(lines)

\* Lines 79-80.
SkipBlank ==
    /\ InLoop
    /\ line = ""
    /\ idx' = idx + 1
    /\ UNCHANGED << text, lines, current_medicine_name, medicines, pc, result,
                    finalized_by >>

\* Lines 82-83.
SkipPhone ==
    /\ InLoop
    /\ line # ""
    /\ is_likely_phone_number(line)
    /\ idx' = idx + 1
    /\ UNCHANGED << text, lines, current_medicine_name, medicines, pc, result,
                    finalized_by >>

\* The line reaches line 85.
Classified == InLoop /\ line # "" /\ ~is_likely_phone_number(line)

\* PendingAfterName that keeps a name already pending instead of overwriting it.
PendingKeepFirst(current, l) ==
    IF current # None THEN current ELSE Some(DeriveName(l))

\* Lines 86-87: the pending name after a name line.
PendingAfterName(current, l) == Some(DeriveName(l))

\* Lines 85-92.
NameLine ==
    /\ Classified
    /\ IsNameLine(line)
    /\ current_medicine_name' = PendingAfterName(current_medicine_name, line)
    /\ idx' = idx + 1
    /\ UNCHANGED << text, lines, medicines, pc, result, finalized_by >>

IsDetailLine == Classified /\ ~IsNameLine(line)

\* Lines 128-132.
NewRecord(current, dosage, frequency) ==
    [name |-> strip(current[1]), dosage |-> strip(dosage), frequency |-> strip(frequency)]

\* Lines 94-125 raise at line 121: the call ends with a TypeError.
DetailRaise ==
    /\ IsDetailLine
    /\ ExtractFrequency(line_lower).raised
    /\ pc' = "raised"
    /\ UNCHANGED << text, lines, idx, current_medicine_name, medicines, result,
                    finalized_by >>

\* Lines 94-133 with a name pending: the record is appended.
DetailEmit ==
    /\ IsDetailLine
    /\ ~ExtractFrequency(line_lower).raised
    /\ Truthy(current_medicine_name)
    /\ medicines' = Append(medicines,
                           NewRecord(current_medicine_name,
                                     ExtractDosage(line_lower, current_medicine_name),
                                     ExtractFrequency(line_lower).frequency))
    /\ current_medicine_name' = None
    /\ finalized_by' = Append(finalized_by, idx)
    /\ idx' = idx + 1
    /\ UNCHANGED << text, lines, pc, result >>

\* Lines 94-127 with no name pending: the fields are computed and dropped.
DetailIgnored ==
    /\ IsDetailLine
    /\ ~ExtractFrequency(line_lower).raised
    /\ ~Truthy(current_medicine_name)
    /\ idx' = idx + 1
    /\ UNCHANGED << text, lines, current_medicine_name, medicines, pc, result,
                    finalized_by >>

\* ReturnValue without the fallback of line 136.
ReturnValueNoFallback(meds, txt) == meds

\* ReturnValue that tests the text before trimming.
ReturnValuePreTrim(meds, txt) ==
    IF meds = << >> /\ txt # "" THEN << Sentinel >> ELSE meds

\* ReturnValue that forgets  not medicines  and adds the sentinel to the records.
ReturnValueAppendSentinel(meds, txt) ==
    IF strip(txt) # "" THEN Append(meds, Sentinel) ELSE meds

\* Lines 135-137.
ReturnValue(meds, txt) ==
    IF meds = << >> /\ strip(txt) # "" THEN << Sentinel >> ELSE meds

Return ==
    /\ pc = "loop"
    /\ idx > Len(lines)
    /\ result' = ReturnValue(medicines, text)
    /\ pc' = "done"
    /\ UNCHANGED << text, lines, idx, current_medicine_name, medicines, finalized_by >>

Next ==
    \/ SkipBlank
    \/ SkipPhone
    \/ NameLine
    \/ DetailRaise
    \/ DetailEmit
    \/ DetailIgnored
    \/ Return

Spec == Init /\ [][Next]_vars


(***************************************************************************)
(* The claims                                                              *)
(***************************************************************************)
\* The k-th line as the loop sees it.
StrippedLine(k) == strip(lines[k])

\* The k-th line gets past the blank and the phone-number tests.
Reaches85(k) == StrippedLine(k) # "" /\ ~is_likely_phone_number(StrippedLine(k))

ProcessedAsName(k) == Reaches85(k) /\ IsNameLine(StrippedLine(k))

ProcessedAsDetail(k) == Reaches85(k) /\ ~IsNameLine(StrippedLine(k))

AllSpace(s) == \A i \in 1..Len(s) : Ch(s, i) \in SpaceChars

NoNameShapedLine == \A k \in 1..Len(lines) : ~name_pattern(StrippedLine(k))

\* C1: parse_medicine_details never raises, whatever the text.
C1_NeverRaises == pc # "raised"

C3_WhitespaceGivesEmpty ==
    AllSpace(text) =>
        /\ \A k \in 1..Len(lines) : StrippedLine(k) = ""
        /\ pc # "raised"
        /\ medicines = << >>
        /\ pc = "done" => result = << >>

C3_Witness == pc = "done" /\ text # "" /\ AllSpace(text) /\ Len(lines) >= 2

\* C4: a record is emitted exactly when a detail line is processed while a
\* name is pending, and the emission clears the pending name; a detail line
\* processed while no name is pending emits nothing and leaves no name
\* pending; a name line emits nothing.
C4_EmissionRule ==
    [][ InLoop =>
          /\ (Len(medicines') = Len(medicines) + 1)
                 <=> (ProcessedAsDetail(idx) /\ current_medicine_name # None)
          /\ (Len(medicines') = Len(medicines) + 1) => current_medicine_name' = None
          /\ (ProcessedAsDetail(idx) /\ current_medicine_name = None)
                 => (medicines' = medicines /\ current_medicine_name' = None)
          /\ ProcessedAsName(idx) => medicines' = medicines ]_vars

\* C5: every record of a result has a non-empty name; a result holds the
\* sentinel only as its single record, for a non-empty text with zero
\* medicine records, and is otherwise the medicine records themselves; a
\* pending name is never empty.
C5_NamesAndSentinel ==
    /\ current_medicine_name # None => current_medicine_name[1] # ""
    /\ \A i \in 1..Len(medicines) :
           medicines[i].name # "" /\ medicines[i] # Sentinel
    /\ pc = "done" =>
           /\ \A i \in 1..Len(result) : result[i].name # ""
           /\ (\E i \in 1..Len(result) : result[i] = Sentinel)
                  => (result = << Sentinel >> /\ text # "" /\ medicines = << >>)
           /\ (\A i \in 1..Len(result) : result[i] # Sentinel) => result = medicines

C5_Witness ==
    /\ pc = "done"
    /\ Len(result) = 2
    /\ result[1].name = "Paracetamol"
    /\ \A i \in 1..Len(result) : result[i] # Sentinel

\* The text is a name line, then at least one phone-number line, then a
\* detail line.
NamePhonesDetail ==
    /\ Len(lines) >= 3
    /\ ProcessedAsName(1)
    /\ \A k \in 2..(Len(lines) - 1) :
           StrippedLine(k) # "" /\ is_likely_phone_number(StrippedLine(k))
    /\ ProcessedAsDetail(Len(lines))

\* C6: a phone-number line emits no record and leaves the pending name as it
\* is, so a name line, then phone-number lines, then a detail line yields one
\* record pairing that name with that detail line.
C6_PhoneTransparent ==
    (NamePhonesDetail /\ idx >= Len(lines)) =>
        /\ current_medicine_name = Some(DeriveName(StrippedLine(1)))
               \/ finalized_by = << Len(lines) >>
        /\ pc # "raised"
        /\ pc = "done" =>
               /\ Len(result) = 1
               /\ result[1].name = DeriveName(StrippedLine(1))
               /\ finalized_by = << Len(lines) >>

\* The line that set the name pending when line d was processed.
NameLineBefore(d) == SetMax({ k \in 1..(d - 1) : ProcessedAsName(k) })

\* C7: the records are in the order of their name lines: each record's name
\* is the one derived from the most recent name line before the detail line
\* that finalized it, and that name line comes after the detail line, hence
\* after the name line, of the record before it.
C7_OrderOfNames ==
    /\ Len(finalized_by) = Len(medicines)
    /\ \A i \in 1..Len(medicines) :
           /\ \E k \in 1..(finalized_by[i] - 1) : ProcessedAsName(k)
           /\ medicines[i].name = DeriveName(StrippedLine(NameLineBefore(finalized_by[i])))
           /\ i > 1 => /\ NameLineBefore(finalized_by[i]) > finalized_by[i - 1]
                       /\ NameLineBefore(finalized_by[i]) > NameLineBefore(finalized_by[i - 1])
    /\ (pc = "done" /\ medicines # << >>) => result = medicines

C7_Witness ==
    /\ pc = "done"
    /\ Len(result) = 2
    /\ result[1].name = "Amoxicillin"
    /\ result[2].name = "Paracetamol"

ExampleText == "Paracetamol 500 mg\n1-0-1"

\* C8 as stated: the example text gives one record with name Paracetamol,
\* dosage "500 mg" and the triplet placed positionally.
C8_ExampleAsStated ==
    (pc = "done" /\ text = ExampleText) =>
        result = << [name |-> "Paracetamol", dosage |-> "500 mg",
                     frequency |-> "Morning: 1, Afternoon: 0, Night: 1"] >>

\* C8 as amended: the example text gives one record with name Paracetamol,
\* dosage "1" (the bare number of the detail line 1-0-1; the "500 mg" of the
\* header is stripped and not kept) and the triplet placed positionally.
C8_Example ==
    (pc = "done" /\ text = ExampleText) =>
        result = << [name |-> "Paracetamol", dosage |-> "1",
                     frequency |-> "Morning: 1, Afternoon: 0, Night: 1"] >>

C8_Witness == pc = "done" /\ text = ExampleText /\ Len(result) = 1

\* The detail line that emitted record i, in lowercase.
DetailOf(i) == lower(StrippedLine(finalized_by[i]))

\* "<number> <unit>" of the match of the primary dosage pattern, in either
\* order of number and unit.
NumberAndUnit(m) ==
    IF m.g1 # None THEN m.g1[1] \o " " \o m.g3[1] ELSE m.g5[1] \o " " \o m.g4[1]

\* C9: when the detail line of a record has a number followed by a unit
\* keyword, or a unit keyword followed by a number, the record's dosage is
\* "<number> <unit>".
C9_PrimaryDosage ==
    \A i \in 1..Len(medicines) :
        dosage_match(DetailOf(i)) # None
            => medicines[i].dosage = NumberAndUnit(dosage_match(DetailOf(i))[1])

RECURSIVE FirstMatchWins(_, _)
\* The keyword scan as C10 states it, from the k-th keyword on.
FirstMatchWins(detail, k) ==
    IF k > Len(frequency_keywords) THEN "Not specified"
    ELSE LET kw == frequency_keywords[k]
             m  == freq_num_match(detail, kw)
         IN  IF m # None THEN m[1].g1[1] \o " " \o m[1].g3[1]
             ELSE IF Contains(detail, kw) THEN kw
             ELSE FirstMatchWins(detail, k + 1)

\* C10: for a detail line without a triplet the frequency is that of the
\* first keyword, in list order, that has a number directly before it (or
\* before "times a day"), giving "<number> <matched text>", or that occurs in
\* the line, giving the keyword; "Not specified" when there is none.
C10_FirstMatchWins ==
    \A i \in 1..Len(medicines) :
        xyz_match(DetailOf(i)) = None
            => medicines[i].frequency = FirstMatchWins(DetailOf(i), 1)


====
